---- MODULE Spec2Model ----
(***************************************************************************)
(* A model of src/utils/CQcode.mjs: the CQCode entity (an insertion-       *)
(* ordered Map of fields under a type), its serialisation and regex        *)
(* parser, the two escape modes and their inverse, and the image           *)
(* pre-download helper imgPreDl behind the promise-limit(4) limiter.       *)
(*                                                                         *)
(* A JavaScript string is a sequence of UTF-16 code units; a code unit is  *)
(* a one-character TLA+ string, and the code units the emoji regex of      *)
(* escape() names are written "u2600", "uD83C", "uDF00", "uD83D", "uDC00". *)
(***************************************************************************)
EXTENDS Integers, Sequences, FiniteSets, Bags, TLC

(***************************************************************************)
(* JavaScript values: undefined, a string (a sequence of code units) or a  *)
(* URL object (what pathToFileURL returns), each tagged with its typeof.   *)
(***************************************************************************)
Nil == [t |-> "undefined"]

Str(s) == [t |-> "string", s |-> s]

URLObject(href) == [t |-> "object", href |-> href]

\* _.isNil(v)
isNil(v) == v.t = "undefined"

\* String(v), as Array.prototype.join applies it to an element.
ToStr(v) == IF v.t = "string" THEN v.s ELSE IF v.t = "object" THEN v.href ELSE << >>

(***************************************************************************)
(* String helpers of the JavaScript runtime.                               *)
(***************************************************************************)
\* str.replace(/pat/g, rep) for a literal pattern: leftmost, non-overlapping.
RECURSIVE ReplaceAll(_, _, _)
ReplaceAll(s, pat, rep) ==
  IF Len(s) < Len(pat) THEN s
  ELSE IF SubSeq(s, 1, Len(pat)) = pat
       THEN rep \o ReplaceAll(SubSeq(s, Len(pat) + 1, Len(s)), pat, rep)
       ELSE <<Head(s)>> \o ReplaceAll(Tail(s), pat, rep)

\* The code units of the three alternatives of the emoji regex of escape().
HighD83C == {"uD83C"}
LowD83C == {"uDF00"}
HighD83D == {"uD83D"}
LowD83D == {"uDC00"}
Symbol2600 == {"u2600"}

\* .replace(/(\ud83c[\udf00-\udfff])|(\ud83d[\udc00-\ude4f\ude80-\udeff])|[\u2600-\u2B55]/g, ' ')
RECURSIVE ReplaceEmoji(_)
ReplaceEmoji(s) ==
  IF s = << >> THEN s
  ELSE IF Len(s) >= 2 /\ s[1] \in HighD83C /\ s[2] \in LowD83C
       THEN <<" ">> \o ReplaceEmoji(SubSeq(s, 3, Len(s)))
  ELSE IF Len(s) >= 2 /\ s[1] \in HighD83D /\ s[2] \in LowD83D
       THEN <<" ">> \o ReplaceEmoji(SubSeq(s, 3, Len(s)))
  ELSE IF s[1] \in Symbol2600
       THEN <<" ">> \o ReplaceEmoji(Tail(s))
  ELSE <<Head(s)>> \o ReplaceEmoji(Tail(s))

\* The entity sequences.
EntAmp == <<"&", "a", "m", "p", ";">>
Ent91 == <<"&", "#", "9", "1", ";">>
Ent93 == <<"&", "#", "9", "3", ";">>
Ent44 == <<"&", "#", "4", "4", ";">>

\* An escape that replaces & after the brackets, and so escapes its own entities.
escapeAmpLast(str, insideCQ) ==
  IF str.t # "string" THEN str
  ELSE LET result == ReplaceAll(ReplaceAll(ReplaceAll(str.s, <<"[">>, Ent91),
                                           <<"]">>, Ent93), <<"&">>, EntAmp)
       IN IF ~insideCQ THEN Str(result)
          ELSE Str(ReplaceEmoji(ReplaceAll(result, <<",">>, Ent44)))

\* CQCode.escape(str, insideCQ)
escape(str, insideCQ) ==
  IF str.t # "string" THEN str
  ELSE LET result == ReplaceAll(ReplaceAll(ReplaceAll(str.s, <<"&">>, EntAmp),
                                           <<"[">>, Ent91), <<"]">>, Ent93)
       IN IF ~insideCQ THEN Str(result)
          ELSE Str(ReplaceEmoji(ReplaceAll(result, <<",">>, Ent44)))

\* CQCode.unescape(str)
unescape(str) ==
  IF str.t # "string" THEN str
  ELSE Str(ReplaceAll(ReplaceAll(ReplaceAll(ReplaceAll(str.s, Ent44, <<",">>),
                                            Ent91, <<"[">>), Ent93, <<"]">>),
                      EntAmp, <<"&">>))

\* CQCode.escapeInsideCQ(str)
escapeInsideCQ(str) == escape(str, TRUE)

\* array.join(sep) over an array of values
RECURSIVE Join(_, _)
Join(list, sep) ==
  IF list = << >> THEN << >>
  ELSE IF Len(list) = 1 THEN ToStr(list[1])
  ELSE ToStr(list[1]) \o sep \o Join(Tail(list), sep)

\* str.split(sep) for a one-unit separator
RECURSIVE Split(_, _)
Split(s, sep) ==
  IF \A i \in 1..Len(s) : s[i] # sep THEN <<s>>
  ELSE LET i == CHOOSE j \in 1..Len(s) :
                  s[j] = sep /\ \A k \in 1..(j - 1) : s[k] # sep
       IN <<SubSeq(s, 1, i - 1)>> \o Split(SubSeq(s, i + 1, Len(s)), sep)

(***************************************************************************)
(* A plain JavaScript object: its own enumerable string-keyed properties   *)
(* as a sequence of [k, v] in property order (array-index keys ascending,  *)
(* then the other keys in creation order).                                 *)
(***************************************************************************)
Digits == {"0", "1", "2", "3", "4", "5", "6", "7", "8", "9"}

DigitValue(c) ==
  CASE c = "0" -> 0 [] c = "1" -> 1 [] c = "2" -> 2 [] c = "3" -> 3 [] c = "4" -> 4
    [] c = "5" -> 5 [] c = "6" -> 6 [] c = "7" -> 7 [] c = "8" -> 8 [] c = "9" -> 9

\* A canonical array index: these property keys enumerate first, ascending.
IsArrayIndex(k) ==
  /\ Len(k) >= 1
  /\ \A i \in 1..Len(k) : k[i] \in Digits
  /\ (Len(k) = 1 \/ k[1] # "0")

RECURSIVE IndexValue(_)
IndexValue(k) ==
  IF k = << >> THEN 0
  ELSE 10 * IndexValue(SubSeq(k, 1, Len(k) - 1)) + DigitValue(k[Len(k)])

\* The accessor property Object.prototype.__proto__
ProtoKey == <<"_", "_", "p", "r", "o", "t", "o", "_", "_">>

HasKey(entries, k) == \E i \in 1..Len(entries) : entries[i].k = k

IndexOfKey(entries, k) == CHOOSE i \in 1..Len(entries) : entries[i].k = k

\* obj[k] = v on a plain object, v a string or undefined: the __proto__ setter
\* ignores a value that is neither an object nor null.
ObjAssign(obj, k, v) ==
  IF k = ProtoKey THEN obj
  ELSE IF HasKey(obj, k) THEN [obj EXCEPT ![IndexOfKey(obj, k)].v = v]
  ELSE IF IsArrayIndex(k)
       THEN LET before == {i \in 1..Len(obj) :
                             IsArrayIndex(obj[i].k) /\ IndexValue(obj[i].k) < IndexValue(k)}
                n == Cardinality(before)
            IN SubSeq(obj, 1, n) \o <<[k |-> k, v |-> v]>> \o SubSeq(obj, n + 1, Len(obj))
  ELSE Append(obj, [k |-> k, v |-> v])

(***************************************************************************)
(* The CQCode entity: type and data, a Map (entries in insertion order).   *)
(***************************************************************************)
\* A set that moves an overwritten key to the end.
MapSetMovesLast(map, k, v) ==
  IF HasKey(map, k)
  THEN LET i == IndexOfKey(map, k)
       IN Append(SubSeq(map, 1, i - 1) \o SubSeq(map, i + 1, Len(map)), [k |-> k, v |-> v])
  ELSE Append(map, [k |-> k, v |-> v])

\* Map.prototype.set
MapSet(map, k, v) ==
  IF HasKey(map, k) THEN [map EXCEPT ![IndexOfKey(map, k)].v = v]
  ELSE Append(map, [k |-> k, v |-> v])

\* Map.prototype.delete
MapDelete(map, k) ==
  IF HasKey(map, k)
  THEN LET i == IndexOfKey(map, k) IN SubSeq(map, 1, i - 1) \o SubSeq(map, i + 1, Len(map))
  ELSE map

\* Map.prototype.get
MapGet(map, k) == IF HasKey(map, k) THEN map[IndexOfKey(map, k)].v ELSE Nil

\* new Map(Object.entries(data))
RECURSIVE MapFromEntries(_)
MapFromEntries(entries) ==
  IF entries = << >> THEN << >>
  ELSE MapSet(MapFromEntries(SubSeq(entries, 1, Len(entries) - 1)),
              entries[Len(entries)].k, entries[Len(entries)].v)

\* constructor(type, data)
NewCQCode(type, data) == [type |-> type, data |-> MapFromEntries(data)]

\* get(key)
get(cq, key) == MapGet(cq.data, key)

\* set(key, value)
set(cq, key, value) == [cq EXCEPT !.data = MapSet(cq.data, key, value)]

\* mset(obj)
RECURSIVE mset(_, _)
mset(cq, obj) ==
  IF obj = << >> THEN cq
  ELSE mset(set(cq, obj[1].k, obj[1].v), Tail(obj))

\* del(key)
del(cq, key) == [cq EXCEPT !.data = MapDelete(cq.data, key)]

\* .filter(([, v]) => !_.isNil(v))
RECURSIVE FilterNotNil(_)
FilterNotNil(entries) ==
  IF entries = << >> THEN << >>
  ELSE IF isNil(entries[1].v) THEN FilterNotNil(Tail(entries))
  ELSE <<entries[1]>> \o FilterNotNil(Tail(entries))

\* A toString that escapes the keys only.
EscapeKeyOnly(kv) == Str(Join(<<escapeInsideCQ(Str(kv.k)), kv.v>>, <<"=">>))

\* kv => kv.map(CQCode.escapeInsideCQ).join('=')
EscapeKV(kv) == Str(Join(<<escapeInsideCQ(Str(kv.k)), escapeInsideCQ(kv.v)>>, <<"=">>))

\* toString()
toString(cq) ==
  LET kept == FilterNotNil(cq.data)
      list == <<Str(<<"C", "Q", ":">> \o cq.type)>> \o [i \in 1..Len(kept) |-> EscapeKV(kept[i])]
  IN <<"[">> \o Join(list, <<",">>) \o <<"]">>

(***************************************************************************)
(* CQCode.from and its regex. A position is an index into str; a match of  *)
(* a sub-pattern starting at p is named by the position that follows it.   *)
(***************************************************************************)
\* reg = /\[CQ:([^,[\]]+)((?:,[^,=[\]]+=[^,[\]]*)*)\]/g
\* [^,[\]]
TypeUnit(c) == c \notin {",", "[", "]"}

\* [^,=[\]]
KeyUnit(c) == c \notin {",", "=", "[", "]"}

\* [^,[\]]
ValueUnit(c) == c \notin {",", "[", "]"}

\* The ends of the matches of Unit+ (min = 1) or Unit* (min = 0) at p.
RunEnds(str, p, Unit(_), min) ==
  {q \in (p + min)..(Len(str) + 1) : \A i \in p..(q - 1) : Unit(str[i])}

\* The ends of the matches of ,[^,=[\]]+=[^,[\]]* at p.
PairEnds(str, p) ==
  IF p > Len(str) \/ str[p] # "," THEN {}
  ELSE UNION {IF k <= Len(str) /\ str[k] = "=" THEN RunEnds(str, k + 1, ValueUnit, 0) ELSE {}
                : k \in RunEnds(str, p + 1, KeyUnit, 1)}

\* The ends of the matches of (?:,[^,=[\]]+=[^,[\]]*)* at p.
RECURSIVE PairsEnds(_, _)
PairsEnds(str, p) == {p} \cup UNION {PairsEnds(str, q) : q \in PairEnds(str, p)}

\* The matches of the whole regex at i: [t, q], the type being str[i+4..t-1],
\* the second group str[t..q-1] and str[q] the closing bracket.
MatchesAt(str, i) ==
  IF i + 3 > Len(str) \/ SubSeq(str, i, i + 3) # <<"[", "C", "Q", ":">> THEN {}
  ELSE {m \in UNION {{[t |-> t, q |-> q] : q \in PairsEnds(str, t)}
                       : t \in RunEnds(str, i + 4, TypeUnit, 1)}
          : m.q <= Len(str) /\ str[m.q] = "]"}

\* The match the backtracking engine reports at i: the quantifiers are greedy,
\* so the longest type, then the longest second group.
MatchAt(str, i) ==
  CHOOSE m \in MatchesAt(str, i) :
    \A n \in MatchesAt(str, i) : n.t < m.t \/ (n.t = m.t /\ n.q <= m.q)

\* A from without _.filter: the empty string before the first comma stays.
KeepFalsy(list) == list

\* _.filter(array): drops the falsy elements (here the empty strings)
RECURSIVE FilterTruthy(_)
FilterTruthy(list) ==
  IF list = << >> THEN << >>
  ELSE IF list[1] = << >> THEN FilterTruthy(Tail(list))
  ELSE <<list[1]>> \o FilterTruthy(Tail(list))

\* (obj, kv) => { const [key, ...value] = kv.split('='); obj[unescape(key)] = unescape(value.join('=')) }
TransformKV(obj, kv) ==
  LET parts == Split(kv, "=")
      key == parts[1]
      value == [i \in 1..(Len(parts) - 1) |-> Str(parts[i + 1])]
  IN ObjAssign(obj, unescape(Str(key)).s, unescape(Str(Join(value, <<"=">>))))

\* _.transform(list, iteratee, {})
RECURSIVE Transform(_, _)
Transform(list, obj) ==
  IF list = << >> THEN obj
  ELSE Transform(Tail(list), TransformKV(obj, list[1]))

\* The body of the exec loop for one match.
MatchedCode(str, i) ==
  LET m == MatchAt(str, i)
      type == SubSeq(str, i + 4, m.t - 1)
      dataStr == SubSeq(str, m.t, m.q - 1)
  IN NewCQCode(type, Transform(FilterTruthy(Split(dataStr, ",")), << >>))

\* for (let match; (match = reg.exec(str)); ) from reg.lastIndex = from - 1
RECURSIVE ExecLoop(_, _)
ExecLoop(str, from) ==
  LET starts == {i \in from..Len(str) : MatchesAt(str, i) # {}}
  IN IF starts = {} THEN << >>
     ELSE LET i == CHOOSE j \in starts : \A k \in starts : j <= k
          IN <<MatchedCode(str, i)>> \o ExecLoop(str, MatchAt(str, i).q + 1)

\* CQCode.from(str)
from(str) == ExecLoop(str, 1)

(***************************************************************************)
(* The builders used by imgPreDl.                                          *)
(***************************************************************************)
\* The object literal { file, type }
FileTypeObject(file, type) ==
  <<[k |-> <<"f", "i", "l", "e">>, v |-> file], [k |-> <<"t", "y", "p", "e">>, v |-> type]>>

\* CQCode.img(file, type)
img(file, type) == toString(NewCQCode(<<"i", "m", "a", "g", "e">>, FileTypeObject(file, type)))

(***************************************************************************)
(* The inputs of the string functions: concatenations of a few pieces.     *)
(***************************************************************************)
RECURSIVE Concats(_, _)
Concats(pieces, n) ==
  IF n = 0 THEN {<< >>}
  ELSE LET shorter == Concats(pieces, n - 1)
       IN shorter \cup {s \o piece : s \in shorter, piece \in pieces}

\* Bounds: the pieces in an input of escape, and in an input of from.
MaxEscParts == 3
MaxTextParts == 4

EscPieces ==
  {<<"&">>, <<"[">>, <<"]">>, <<",">>, <<"a">>, Ent44, EntAmp, Ent93,
   <<"a", "m", "p", ";">>, <<"u2600">>, <<"uD83C">>, <<"uDF00">>}

TextPieces ==
  {<<"[", "C", "Q", ":", "a">>, <<"]">>, <<",", "q", "=", "1">>, <<",", "q", "=">>,
   <<",", "=", "1">>, <<"=">>, <<",">>, <<"[">>, Ent44, <<"x">>,
   <<",">> \o ProtoKey \o <<"=", "x">>, <<",", "4", "=", "x">>, <<",", "1", "=", "y">>}

VARIABLES
  step,         \* how far the run of a string function or entity got
  str,          \* escape: the input string
  insideCQ,     \* escape: the mode
  escaped,      \* escape(str, insideCQ)
  restored,     \* unescape(escaped)
  text,         \* from: the input text
  parsed        \* from(text)

codecVars == <<step, str, insideCQ, escaped, restored, text, parsed>>

CodecIdle ==
  /\ step = "idle"
  /\ str = << >>
  /\ insideCQ = FALSE
  /\ escaped = Nil
  /\ restored = Nil
  /\ text = << >>
  /\ parsed = << >>

\* escape(str, insideCQ) is called.
Escape ==
  /\ step = "input"
  /\ step' = "escaped"
  /\ escaped' = escape(Str(str), insideCQ)
  /\ UNCHANGED <<str, insideCQ, restored, text, parsed>>

\* unescape is called on what escape returned.
Unescape ==
  /\ step = "escaped"
  /\ step' = "unescaped"
  /\ restored' = unescape(escaped)
  /\ UNCHANGED <<str, insideCQ, escaped, text, parsed>>

EscapeInit ==
  /\ step = "input"
  /\ str \in Concats(EscPieces, MaxEscParts)
  /\ insideCQ \in BOOLEAN
  /\ escaped = Nil
  /\ restored = Nil
  /\ text = << >>
  /\ parsed = << >>

EscapeNext == Escape \/ Unescape

\* CQCode.from(text) is called.
From ==
  /\ step = "text"
  /\ step' = "parsed"
  /\ parsed' = from(text)
  /\ UNCHANGED <<str, insideCQ, escaped, restored, text>>

ParseInit ==
  /\ step = "text"
  /\ text \in Concats(TextPieces, MaxTextParts)
  /\ str = << >>
  /\ insideCQ = FALSE
  /\ escaped = Nil
  /\ restored = Nil
  /\ parsed = << >>

ParseNext == From

(***************************************************************************)
(* An entity under construction: set, mset and del, then toString, then    *)
(* from on the result. born and last keep, beside the Map, the time of the *)
(* insertion that made each present key present and its last written       *)
(* value; tick counts the Map writes and ops the operations.               *)
(***************************************************************************)
\* Bounds: the operations applied to an entity, and the fields of an entity
\* that is serialised and parsed back.
MaxOps == 4
MaxFields == 2

\* The keys and values of the operations of EntitySpec.
OpKeys == {<<"a">>, <<"b">>, <<"c", ",">>}

OpValues == {Str(<<"1">>), Str(<<"[", "2">>), Nil}

\* The types, keys and values of the entities of CodeSpec.
CodeTypes == {<<"a", "t">>, <<"a", "=">>}

CodeKeys ==
  {<<"q", "q">>, <<"4">>, << >>, ProtoKey, <<"]", "[", "C", "Q", ":", "x", ",">>}

Injection == <<"[", "C", "Q", ":", "a", "t", "]", ",", "b", "=", "&", "#", "9", "3", ";">>

CodeValues == {Str(<<"1">>), Str(<< >>), Str(Injection), Str(<<"uD83C", "uDF00">>), Nil}

\* The plain texts a serialised entity is embedded between.
Arounds ==
  {<< << >>, << >> >>,
   << <<"[", "C", "Q", ":", "a", "t", "]", "x">>, <<",", "q", "=", "1", "]">> >>,
   << <<"[", "C", "Q", ":">>, <<"]", "[">> >>}

AllKeys == OpKeys \cup CodeKeys

VARIABLES
  cq,           \* the entity
  out,          \* what toString returned (Nil before)
  around,       \* the texts before and after out in the parsed message
  reparsed,     \* from(escape(before) + out + escape(after))
  born,         \* per key: the tick of the write that inserted it, 0 when absent
  last,         \* per key: the value last written
  tick,         \* the Map writes so far
  ops           \* the operations so far

entityVars == <<cq, out, around, reparsed, born, last, tick, ops>>

EntityIdle ==
  /\ cq = NewCQCode(<< >>, << >>)
  /\ out = Nil
  /\ around = << << >>, << >> >>
  /\ reparsed = << >>
  /\ born = [k \in AllKeys |-> 0]
  /\ last = [k \in AllKeys |-> Nil]
  /\ tick = 0
  /\ ops = 0

\* new CQCode(type) for a type of the given set
EntityInit(types) ==
  /\ \E type \in types : cq = NewCQCode(type, << >>)
  /\ out = Nil
  /\ around = << << >>, << >> >>
  /\ reparsed = << >>
  /\ born = [k \in AllKeys |-> 0]
  /\ last = [k \in AllKeys |-> Nil]
  /\ tick = 0
  /\ ops = 0

\* The record of the writes of the entries of obj, in order.
RECURSIVE BornAfter(_, _, _)
BornAfter(b, t, obj) ==
  IF obj = << >> THEN b
  ELSE BornAfter(IF b[obj[1].k] = 0 THEN [b EXCEPT ![obj[1].k] = t + 1] ELSE b,
                 t + 1, Tail(obj))

RECURSIVE LastAfter(_, _)
LastAfter(l, obj) ==
  IF obj = << >> THEN l
  ELSE LastAfter([l EXCEPT ![obj[1].k] = obj[1].v], Tail(obj))

\* cq.set(key, value)
Set(key, value) ==
  /\ step = "entity"
  /\ cq' = set(cq, key, value)
  /\ born' = BornAfter(born, tick, <<[k |-> key, v |-> value]>>)
  /\ last' = LastAfter(last, <<[k |-> key, v |-> value]>>)
  /\ tick' = tick + 1
  /\ ops' = ops + 1
  /\ UNCHANGED <<step, out, around, reparsed>>

\* cq.mset(obj)
MSet(obj) ==
  /\ step = "entity"
  /\ cq' = mset(cq, obj)
  /\ born' = BornAfter(born, tick, obj)
  /\ last' = LastAfter(last, obj)
  /\ tick' = tick + Len(obj)
  /\ ops' = ops + 1
  /\ UNCHANGED <<step, out, around, reparsed>>

\* cq.del(key)
Del(key) ==
  /\ step = "entity"
  /\ cq' = del(cq, key)
  /\ born' = [born EXCEPT ![key] = 0]
  /\ last' = [last EXCEPT ![key] = Nil]
  /\ ops' = ops + 1
  /\ UNCHANGED <<step, out, around, reparsed, tick>>

\* cq.toString(), a first or a further time
Serialize ==
  /\ step \in {"entity", "serialized"}
  /\ step' = "serialized"
  /\ out' = Str(toString(cq))
  /\ UNCHANGED <<cq, around, reparsed, born, last, tick, ops>>

\* CQCode.from on the message made of out between two escaped plain texts
FromMessage(before, after) ==
  /\ step = "serialized"
  /\ step' = "reparsed"
  /\ around' = <<before, after>>
  /\ reparsed' = from(escape(Str(before), FALSE).s \o out.s \o escape(Str(after), FALSE).s)
  /\ UNCHANGED <<cq, out, born, last, tick, ops>>

\* The objects passed to mset: two entries with different keys.
OpObjects ==
  {obj \in {<<[k |-> k1, v |-> v1], [k |-> k2, v |-> v2]>> :
               k1 \in OpKeys, k2 \in OpKeys, v1 \in OpValues, v2 \in OpValues} :
     obj[1].k # obj[2].k}

EntityNext ==
  \/ \E key \in OpKeys, value \in OpValues : ops < MaxOps /\ Set(key, value)
  \/ \E obj \in OpObjects : ops < MaxOps /\ MSet(obj)
  \/ \E key \in OpKeys : ops < MaxOps /\ Del(key)
  \/ Serialize

CodeNext ==
  \/ \E key \in CodeKeys, value \in CodeValues : ops < MaxFields /\ Set(key, value)
  \/ Serialize
  \/ \E ar \in Arounds : FromMessage(ar[1], ar[2])

(***************************************************************************)
(* imgPreDl and its collaborators. The calls in progress are anonymous     *)
(* promise chains: each is a record of its arguments and of what happened  *)
(* to it, held in the limiter's queue (jobs), in the bag of running GETs   *)
(* (running) or in the bag of calls whose await is about to resume         *)
(* (resumed). The record of the call that returned last is in returned.    *)
(***************************************************************************)
\* Bound of the model: the number of imgPreDl calls made.
NumCalls == 5

URLs == {<<"h", ":", "1">>, <<"h", ":", "2", "&", ",">>}

Variants == {Nil, Str(<<"f", "l", "a", "s", "h">>)}

\* promiseLimit(4)
dlImgLimit == 4

\* The path under which the cache keeps the copy of url.
CachePath(u) == <<"/", "c", "/", u[3]>>

\* pathToFileURL(path) of an absolute path
pathToFileURL(path) == URLObject(<<"f", "i", "l", "e", ":", "/", "/">> \o path)

VARIABLES
  started,      \* the number of imgPreDl calls made so far
  variant,      \* the type argument the calls of this run pass
  cache,        \* the urls the cache holds a copy of
  outstanding,  \* promise-limit: the number of jobs running
  jobs,         \* promise-limit: the queue of waiting jobs, oldest first
  running,      \* the calls whose retryGet is in flight
  resumed,      \* the calls whose retryGet settled and whose await resumes next
  returned,     \* the call that returned last (NoCall before the first)
  anyData       \* whether some retryGet has settled with a response

dlVars == <<started, variant, cache, outstanding, jobs, running, resumed, returned, anyData>>

NoCall == [url |-> << >>]

\* A call as imgPreDl enters: its url, how getCache answered ("hit", "miss",
\* "error"), whether the cache held the url then, and what happened since;
\* file is the file field of the CQCode it returns (Nil until it returns).
NewCall(u, answer) ==
  [url |-> u, lookup |-> answer, held |-> u \in cache, gets |-> 0, slots |-> 0,
   waited |-> FALSE, got |-> "none", stored |-> "none", logged |-> 0, file |-> Nil]

\* A catch block that logs nothing and still returns the local path.
FallbackSilent(call) == [call EXCEPT !.file = pathToFileURL(CachePath(call.url))]

\* The catch block and the return after it: { file: url, type }.
Fallback(call) == [call EXCEPT !.logged = @ + 2, !.file = Str(call.url)]

\* The return inside the try block: { file: pathToFileURL(path), type }.
ReturnLocal(call) == [call EXCEPT !.file = pathToFileURL(CachePath(call.url))]

\* The string a returned call handed to its caller.
Returned(call) == img(call.file, variant)

\* A run(fn) that invokes fn a second time for the same job.
LimitRunTwice(call) == [call EXCEPT !.slots = @ + 1, !.gets = @ + 2]

\* promise-limit's run(fn): the slot is taken and fn() invokes retryGet.
LimitRun(call) == [call EXCEPT !.slots = @ + 1, !.gets = @ + 1]

\* A limiter that compares with > : it admits one job too many.
LimitQueuesOffByOne == outstanding > dlImgLimit

\* promise-limit's semaphore(fn): queue the job when count jobs are running.
LimitQueues == outstanding >= dlImgLimit

\* promise-limit's remove(), after the decrement: dequeue() runs the oldest job.
LimitDequeues == outstanding - 1 < dlImgLimit /\ jobs # << >>

\* getCache(url): the path of the cached copy, nothing, or an exception.
getCache(u) == {IF u \in cache THEN "hit" ELSE "miss", "error"}

\* A test that ignores the path getCache returned.
AlwaysDownloads(answer) == TRUE

\* if (!path)
NeedsDownload(answer) == answer = "miss"

\* imgPreDl(url, type) up to its first await: getCache, then dlImgLimit(...).
imgPreDl(u) ==
  /\ started < NumCalls
  /\ started' = started + 1
  /\ \E answer \in getCache(u) :
       \/ /\ answer = "error"
          /\ returned' = Fallback(NewCall(u, answer))
          /\ UNCHANGED <<outstanding, jobs, running>>
       \/ /\ answer # "error"
          /\ ~NeedsDownload(answer)
          /\ returned' = ReturnLocal(NewCall(u, answer))
          /\ UNCHANGED <<outstanding, jobs, running>>
       \/ /\ answer # "error"
          /\ NeedsDownload(answer)
          /\ IF LimitQueues
             THEN /\ jobs' = Append(jobs, [NewCall(u, answer) EXCEPT !.waited = TRUE])
                  /\ UNCHANGED <<outstanding, running>>
             ELSE /\ outstanding' = outstanding + 1
                  /\ running' = running (+) SetToBag({LimitRun(NewCall(u, answer))})
                  /\ UNCHANGED jobs
          /\ UNCHANGED returned
  /\ UNCHANGED <<variant, cache, resumed, anyData>>

\* A limiter whose rejection handler does not call remove(): the slot of a
\* failed job is never freed.
GetSettlesLeaky(call, how) ==
  /\ BagIn(call, running)
  /\ resumed' = resumed (+) SetToBag({[call EXCEPT !.got = how]})
  /\ anyData' = (anyData \/ how = "data")
  /\ IF how = "error"
     THEN /\ running' = running (-) SetToBag({call})
          /\ UNCHANGED <<outstanding, jobs>>
     ELSE IF LimitDequeues
     THEN /\ outstanding' = outstanding - 1 + 1
          /\ jobs' = Tail(jobs)
          /\ running' = (running (-) SetToBag({call})) (+) SetToBag({LimitRun(Head(jobs))})
     ELSE /\ outstanding' = outstanding - 1
          /\ running' = running (-) SetToBag({call})
          /\ UNCHANGED jobs
  /\ UNCHANGED <<started, variant, cache, returned>>

\* The promise of retryGet settles, with the response or with an error, and
\* promise-limit's handlers on it run: remove(), which frees the slot and runs
\* the oldest waiting job, then passes the outcome on to imgPreDl's await.
GetSettles(call, how) ==
  /\ BagIn(call, running)
  /\ resumed' = resumed (+) SetToBag({[call EXCEPT !.got = how]})
  /\ anyData' = (anyData \/ how = "data")
  /\ IF LimitDequeues
     THEN /\ outstanding' = outstanding - 1 + 1
          /\ jobs' = Tail(jobs)
          /\ running' = (running (-) SetToBag({call})) (+) SetToBag({LimitRun(Head(jobs))})
     ELSE /\ outstanding' = outstanding - 1
          /\ running' = running (-) SetToBag({call})
          /\ UNCHANGED jobs
  /\ UNCHANGED <<started, variant, cache, returned>>

\* imgPreDl after its await: createCache and the return, or the catch block.
Resume(call) ==
  /\ BagIn(call, resumed)
  /\ resumed' = resumed (-) SetToBag({call})
  /\ \/ /\ call.got = "data"
        /\ cache' = cache \cup {call.url}
        /\ returned' = ReturnLocal([call EXCEPT !.stored = "done"])
     \/ /\ call.got = "data"
        /\ returned' = Fallback([call EXCEPT !.stored = "error"])
        /\ UNCHANGED cache
     \/ /\ call.got = "error"
        /\ returned' = Fallback(call)
        /\ UNCHANGED cache
  /\ UNCHANGED <<started, variant, outstanding, jobs, running, anyData>>

\* The cache drops an entry (its eviction is its own business).
Invalidate(u) ==
  /\ u \in cache
  /\ cache' = cache \ {u}
  /\ UNCHANGED <<started, variant, outstanding, jobs, running, resumed, returned, anyData>>

DlInit ==
  /\ started = 0
  /\ variant \in Variants
  /\ cache = {}
  /\ outstanding = 0
  /\ jobs = << >>
  /\ running = EmptyBag
  /\ resumed = EmptyBag
  /\ returned = NoCall
  /\ anyData = FALSE

DlNext ==
  \/ \E u \in URLs : imgPreDl(u)
  \/ \E call \in BagToSet(running), how \in {"data", "error"} : GetSettles(call, how)
  \/ \E call \in BagToSet(resumed) : Resume(call)
  \/ \E u \in URLs : Invalidate(u)

DlIdle ==
  /\ started = 0
  /\ variant = Nil
  /\ cache = {}
  /\ outstanding = 0
  /\ jobs = << >>
  /\ running = EmptyBag
  /\ resumed = EmptyBag
  /\ returned = NoCall
  /\ anyData = FALSE

vars == <<dlVars, codecVars, entityVars>>

Init == DlInit /\ CodecIdle /\ EntityIdle

Next == DlNext /\ UNCHANGED <<codecVars, entityVars>>

\* The downloads, with no assumption on what gets scheduled.
Spec == Init /\ [][Next]_vars

\* The downloads when every started retryGet settles and every await whose
\* promise settled resumes.
FairSpec ==
  /\ Init
  /\ [][Next]_vars
  /\ WF_vars(\E call \in BagToSet(running), how \in {"data", "error"} :
               GetSettles(call, how) /\ UNCHANGED <<codecVars, entityVars>>)
  /\ WF_vars(\E call \in BagToSet(resumed) : Resume(call) /\ UNCHANGED <<codecVars, entityVars>>)

\* escape and unescape on every input.
EscapeStart == EscapeInit /\ DlIdle /\ EntityIdle

EscapeStep == EscapeNext /\ UNCHANGED <<dlVars, entityVars>>

EscapeSpec == EscapeStart /\ [][EscapeStep]_vars

\* from on every input.
ParseStart == ParseInit /\ DlIdle /\ EntityIdle

ParseStep == ParseNext /\ UNCHANGED <<dlVars, entityVars>>

ParseSpec == ParseStart /\ [][ParseStep]_vars

CodecRest ==
  /\ step = "entity"
  /\ str = << >>
  /\ insideCQ = FALSE
  /\ escaped = Nil
  /\ restored = Nil
  /\ text = << >>
  /\ parsed = << >>

codecRest == <<str, insideCQ, escaped, restored, text, parsed>>

\* Entities under set, mset and del, then serialised.
EntityStart == EntityInit({<<"a", "t">>}) /\ CodecRest /\ DlIdle

EntityStep == EntityNext /\ UNCHANGED <<dlVars, codecRest>>

EntitySpec == EntityStart /\ [][EntityStep]_vars

\* Entities built field by field, serialised and parsed back.
CodeStart == EntityInit(CodeTypes) /\ CodecRest /\ DlIdle

CodeStep == CodeNext /\ UNCHANGED <<dlVars, codecRest>>

CodeSpec == CodeStart /\ [][CodeStep]_vars

(***************************************************************************)
(* Properties of imgPreDl.                                                 *)
(***************************************************************************)
\* The retryGet invocations in flight.
InFlight == BagCardinality(running)

\* Some call has not returned yet.
Active == jobs # << >> \/ running # EmptyBag \/ resumed # EmptyBag

\* Every call in progress, queued or not.
InProgress == {jobs[i] : i \in 1..Len(jobs)} \cup BagToSet(running) \cup BagToSet(resumed)

\* The number of calls in a bag that ask for u.
CallsFor(bag, u) ==
  BagCardinality([call \in {r \in BagToSet(bag) : r.url = u} |-> bag[call]])

IsLocal(call) == Returned(call) = img(pathToFileURL(CachePath(call.url)), variant)

IsRemote(call) == Returned(call) = img(Str(call.url), variant)

\* C1: at most dlImgLimit = 4 retryGet invocations are in flight at any time,
\* and a call waits in the limiter's queue only while 4 are in flight.
C1_ConcurrencyBound ==
  /\ InFlight <= 4
  /\ InFlight = outstanding
  /\ jobs # << >> => InFlight = 4

C1_Witness == InFlight = 4 /\ jobs # << >> /\ started = NumCalls

\* C2: a call always returns a string; when getCache, retryGet or createCache
\* failed it logged at least once and returned img(url, type) with the remote
\* url; it returns the local-file code only after a hit or after both the GET
\* and the store succeeded.
C2_FallbackOnFailure ==
  returned # NoCall =>
    /\ ~isNil(returned.file)
    /\ IsLocal(returned) \/ IsRemote(returned)
    /\ (returned.lookup = "error" \/ returned.got = "error" \/ returned.stored = "error")
         => returned.logged >= 1 /\ IsRemote(returned) /\ ~IsLocal(returned)
    /\ IsLocal(returned)
         => returned.lookup = "hit" \/ (returned.got = "data" /\ returned.stored = "done")

C2_Witness ==
  /\ returned # NoCall
  /\ returned.got = "data"
  /\ returned.stored = "error"
  /\ IsRemote(returned)

\* C3 as claimed: while the cache has no entry for a url, the calls in progress
\* for that url have at most one retryGet between them.
C3_Claimed_OneGetPerUrl ==
  \A u \in URLs : u \notin cache => CallsFor(running, u) + CallsFor(resumed, u) <= 1

\* C3 as amended: concurrent calls for one url are not deduplicated. Each call
\* whose own lookup missed invokes retryGet exactly once when it gets a slot,
\* whatever else is in progress, and no other call invokes it.
C3_OneGetPerMissingCall ==
  /\ \A i \in 1..Len(jobs) : jobs[i].lookup = "miss" /\ jobs[i].gets = 0
  /\ \A call \in BagToSet(running) \cup BagToSet(resumed) :
       call.lookup = "miss" /\ call.gets = 1
  /\ returned # NoCall => returned.gets = (IF returned.lookup = "miss" THEN 1 ELSE 0)

C3_Witness ==
  \E u \in URLs : u \notin cache /\ CallsFor(running, u) >= 2

\* C4: under the fairness of FairSpec every call returns, so that eventually
\* no call is queued, running or resuming for good, and whenever no call is
\* in progress every slot of the limiter is free.
C4_NoSlotLeak ==
  /\ <>[](~Active)
  /\ [](~Active => outstanding = 0)
  /\ [](jobs # << >> => outstanding = dlImgLimit)

C4_Witness ==
  /\ ~Active
  /\ started = NumCalls
  /\ outstanding = 0
  /\ ~anyData
  /\ returned # NoCall
  /\ returned.waited
  /\ returned.gets = 1
  /\ IsRemote(returned)

\* C5: a call whose lookup hit made no retryGet, took no slot, never queued and
\* returned the local-file code; so does every call that found the entry of a
\* completed store in the cache when it started (unless getCache itself
\* threw); and no call in progress had a hit.
C5_HitSkipsDownload ==
  /\ \A call \in InProgress : call.lookup = "miss" /\ ~call.held
  /\ returned # NoCall /\ (returned.lookup = "hit" \/ (returned.held /\ returned.lookup # "error"))
       => /\ returned.gets = 0
          /\ returned.slots = 0
          /\ ~returned.waited
          /\ returned.logged = 0
          /\ IsLocal(returned)

C5_Witness ==
  /\ returned # NoCall
  /\ returned.lookup = "hit"
  /\ returned.held
  /\ IsLocal(returned)
  /\ Active

(***************************************************************************)
(* Properties of escape and unescape.                                      *)
(***************************************************************************)
\* s contains one of the literal entity sequences.
ContainsEntity(s) ==
  \E i \in 1..Len(s) : i + 4 <= Len(s) /\ SubSeq(s, i, i + 4) \in {EntAmp, Ent91, Ent93, Ent44}

\* s contains a symbol or a surrogate pair that inside-field escaping replaces.
HasPictograph(s) ==
  \E i \in 1..Len(s) :
    \/ s[i] \in Symbol2600
    \/ i < Len(s) /\ s[i] \in HighD83C /\ s[i + 1] \in LowD83C
    \/ i < Len(s) /\ s[i] \in HighD83D /\ s[i + 1] \in LowD83D

\* C6 as claimed: in both modes unescape(escape(s, mode)) = s for every s that
\* contains no literal entity sequence.
C6_Claimed_RoundTrip ==
  step = "unescaped" /\ ~ContainsEntity(str) => restored = Str(str)

\* C6 as amended: the round trip holds in plain mode for every s without a
\* literal entity sequence, and in inside-field mode for those of them that
\* contain none of the pictographic symbols the mode replaces by a space.
C6_RoundTrip ==
  step = "unescaped" /\ ~ContainsEntity(str) /\ (insideCQ => ~HasPictograph(str))
    => restored = Str(str)

C6_Witness ==
  /\ step = "unescaped"
  /\ insideCQ
  /\ ~ContainsEntity(str)
  /\ ~HasPictograph(str)
  /\ \E i, j, k \in 1..Len(str) : str[i] = "&" /\ str[j] = "," /\ str[k] = "["
  /\ escaped # Str(str)
  /\ restored = Str(str)

(***************************************************************************)
(* Properties of from.                                                     *)
(***************************************************************************)
\* The index of the first "=" of s, 0 when it has none.
FirstEq(s) ==
  IF \A i \in 1..Len(s) : s[i] # "=" THEN 0
  ELSE CHOOSE i \in 1..Len(s) : s[i] = "=" /\ \A j \in 1..(i - 1) : s[j] # "="

\* type(,key=value)* with a non-empty type and non-empty keys
WellFormedBody(body) ==
  LET parts == Split(body, ",")
  IN /\ parts[1] # << >>
     /\ \A n \in 2..Len(parts) : FirstEq(parts[n]) > 1

\* text[i..j] is a well-formed span [CQ:type(,key=value)*]
IsSpan(t, i, j) ==
  /\ i + 3 <= Len(t)
  /\ SubSeq(t, i, i + 3) = <<"[", "C", "Q", ":">>
  /\ j \in (i + 4)..Len(t)
  /\ t[j] = "]"
  /\ \A k \in (i + 4)..(j - 1) : t[k] \notin {"[", "]"}
  /\ WellFormedBody(SubSeq(t, i + 4, j - 1))

Spans(t) == {sp \in (1..Len(t)) \X (1..Len(t)) : IsSpan(t, sp[1], sp[2])}

\* The spans from left to right.
RECURSIVE SpansInOrder(_)
SpansInOrder(spans) ==
  IF spans = {} THEN << >>
  ELSE LET first == CHOOSE sp \in spans : \A other \in spans : sp[1] <= other[1]
       IN <<first>> \o SpansInOrder(spans \ {first})

\* The fields the claim gives the entity of a span: per key, the last value.
SpanFields(t, sp) ==
  LET parts == Split(SubSeq(t, sp[1] + 4, sp[2] - 1), ",")
      keyOf(n) == unescape(Str(SubSeq(parts[n], 1, FirstEq(parts[n]) - 1))).s
      valueOf(n) == unescape(Str(SubSeq(parts[n], FirstEq(parts[n]) + 1, Len(parts[n]))))
  IN {<<keyOf(n), valueOf(n)>> : n \in {m \in 2..Len(parts) :
                                         \A l \in (m + 1)..Len(parts) : keyOf(l) # keyOf(m)}}

SpanType(t, sp) == Split(SubSeq(t, sp[1] + 4, sp[2] - 1), ",")[1]

\* The fields of an entity, as key/value pairs.
Fields(e) == {<<e.data[i].k, e.data[i].v>> : i \in 1..Len(e.data)}

UniqueKeys(e) ==
  \A i, j \in 1..Len(e.data) : e.data[i].k = e.data[j].k => i = j

\* C8 as claimed: from returns exactly the entities of the well-formed spans
\* of the text, from left to right, each with the type verbatim and, per pair,
\* the unescaped key and value split at the first "=", the last value of a
\* repeated key winning.
C8_Claimed_ParsesEverySpan ==
  step = "parsed" =>
    LET spans == SpansInOrder(Spans(text))
    IN /\ Len(parsed) = Len(spans)
       /\ \A n \in 1..Len(spans) :
            /\ parsed[n].type = SpanType(text, spans[n])
            /\ UniqueKeys(parsed[n])
            /\ Fields(parsed[n]) = SpanFields(text, spans[n])

\* What from does: the same, less every pair whose key is __proto__.
ParsesEverySpanButProto ==
  step = "parsed" =>
    LET spans == SpansInOrder(Spans(text))
    IN /\ Len(parsed) = Len(spans)
       /\ \A n \in 1..Len(spans) :
            /\ parsed[n].type = SpanType(text, spans[n])
            /\ UniqueKeys(parsed[n])
            /\ Fields(parsed[n]) = {f \in SpanFields(text, spans[n]) : f[1] # ProtoKey}

(***************************************************************************)
(* Properties of set, mset, del and toString.                              *)
(***************************************************************************)
\* The present keys from the oldest insertion to the newest.
RECURSIVE OldestFirst(_)
OldestFirst(keys) ==
  IF keys = {} THEN << >>
  ELSE LET oldest == CHOOSE k \in keys : \A other \in keys : born[k] <= born[other]
       IN <<oldest>> \o OldestFirst(keys \ {oldest})

\* ,key=value for each key of the list that holds a value, in order.
RECURSIVE Segments(_)
Segments(keys) ==
  IF keys = << >> THEN << >>
  ELSE (IF isNil(last[keys[1]]) THEN << >>
        ELSE <<",">> \o escapeInsideCQ(Str(keys[1])).s \o <<"=">>
               \o ToStr(escapeInsideCQ(last[keys[1]])))
       \o Segments(Tail(keys))

\* C9: after any sequence of set, mset and del the Map holds the present keys
\* in the order of the insertions that made them present, each with the value
\* last written, and toString returns [CQ:type, one ,key=value per present key
\* with a value in that order, and ].
C9_SerializesPresentFieldsInOrder ==
  LET keys == OldestFirst({k \in AllKeys : born[k] > 0})
  IN /\ Len(cq.data) = Len(keys)
     /\ \A i \in 1..Len(keys) : cq.data[i].k = keys[i] /\ cq.data[i].v = last[keys[i]]
     /\ step = "serialized" =>
          out = Str(<<"[", "C", "Q", ":">> \o cq.type \o Segments(keys) \o <<"]">>)

\* An overwritten key, a key deleted and set again, and a key holding nil.
C9_Witness ==
  /\ step = "serialized"
  /\ ops = MaxOps
  /\ Len(cq.data) = 3
  /\ born[cq.data[1].k] = 1
  /\ last[cq.data[1].k] = Str(<<"[", "2">>)
  /\ born[cq.data[2].k] >= 3
  /\ isNil(last[cq.data[3].k])

(***************************************************************************)
(* Properties of toString followed by from.                                *)
(***************************************************************************)
Reserved == {",", "=", "[", "]", "&"}

\* Every key and value is a string free of the reserved characters.
CleanFields(e) ==
  \A i \in 1..Len(e.data) :
    /\ e.data[i].v.t = "string"
    /\ \A n \in 1..Len(e.data[i].k) : e.data[i].k[n] \notin Reserved
    /\ \A n \in 1..Len(e.data[i].v.s) : e.data[i].v.s[n] \notin Reserved

\* C7 as claimed: an entity whose keys and values avoid the reserved
\* characters is parsed back from its serialisation as exactly one entity of
\* the same type with the same key/value pairs.
C7_Claimed_RoundTrip ==
  step = "reparsed" /\ around = << << >>, << >> >> /\ CleanFields(cq)
    => /\ Len(reparsed) = 1
       /\ reparsed[1].type = cq.type
       /\ Fields(reparsed[1]) = Fields(cq)

\* The type is not empty and has none of the characters that end it.
TypeParses(e) == e.type # << >> /\ \A n \in 1..Len(e.type) : e.type[n] \notin {",", "[", "]"}

\* No key is empty, and no key or value has a symbol that escaping replaces.
KeysAndSymbolsParse(e) ==
  \A i \in 1..Len(e.data) :
    /\ e.data[i].k # << >>
    /\ ~HasPictograph(e.data[i].k)
    /\ ~HasPictograph(e.data[i].v.s)

\* C7 as amended: when moreover the type is non-empty and free of , [ ], the
\* keys are non-empty and neither keys nor values hold a pictographic symbol,
\* the serialisation parses back as exactly one entity of the same type whose
\* pairs are those of the original other than a pair keyed __proto__, which
\* from loses.
C7_RoundTrip ==
  step = "reparsed" /\ around = << << >>, << >> >> /\ CleanFields(cq)
      /\ TypeParses(cq) /\ KeysAndSymbolsParse(cq)
    => /\ Len(reparsed) = 1
       /\ reparsed[1].type = cq.type
       /\ UniqueKeys(reparsed[1])
       /\ Fields(reparsed[1]) = {f \in Fields(cq) : f[1] # ProtoKey}

C7_Witness ==
  /\ step = "reparsed"
  /\ around = << << >>, << >> >>
  /\ CleanFields(cq) /\ TypeParses(cq) /\ KeysAndSymbolsParse(cq)
  /\ Len(cq.data) = 2
  /\ cq.data[1].k = <<"q", "q">>
  /\ cq.data[2].k = <<"4">>
  /\ \E i \in 1..2 : cq.data[i].v.s # << >>
  /\ Len(reparsed) = 1
  /\ reparsed[1].data[1].k = <<"4">>
  /\ Fields(reparsed[1]) = Fields(cq)

\* The number of occurrences of c in s.
Count(s, c) == Cardinality({i \in 1..Len(s) : s[i] = c})

\* C10: whatever strings the keys and values are, toString's result has "["
\* only as its first unit, "]" only as its last, and one "," per field with a
\* value; and from, on that result alone or between plain-escaped texts, finds
\* at most one entity, of the entity's type.
C10_NoMarkupInjection ==
  /\ step \in {"serialized", "reparsed"} =>
       /\ \A i \in 1..Len(out.s) : (out.s[i] = "[") <=> (i = 1)
       /\ \A i \in 1..Len(out.s) : (out.s[i] = "]") <=> (i = Len(out.s))
       /\ Count(out.s, ",") = Len(FilterNotNil(cq.data))
  /\ step = "reparsed" =>
       /\ Len(reparsed) <= 1
       /\ \A n \in 1..Len(reparsed) : reparsed[n].type = cq.type

C10_Witness ==
  /\ step = "reparsed"
  /\ around[1] # << >>
  /\ \E i \in 1..Len(cq.data) :
       /\ cq.data[i].k = <<"]", "[", "C", "Q", ":", "x", ",">>
       /\ cq.data[i].v = Str(Injection)
  /\ Len(reparsed) = 1
  /\ reparsed[1].type = cq.type
  /\ Fields(reparsed[1]) = Fields(cq)
====
